---- MODULE Spec2Model ----
(***************************************************************************)
(* A model of the server-side state of the application: the subscription   *)
(* table written by the Stripe webhook handlers (lib/auth.ts), the four    *)
(* per-user in-memory caches of lib/user-data-server.ts, the weighted      *)
(* round-robin read-replica selector of lib/db/index.ts, the Pro-status    *)
(* helpers of lib/subscription.ts and the student discount of              *)
(* lib/discount.ts.                                                        *)
(*                                                                         *)
(* Asynchronous functions are cut at their awaits: the step that issues a  *)
(* database query, the step in which the database answers it, and the      *)
(* continuation that runs after the await are separate actions, so that    *)
(* other requests can run in between, as they can on the event loop.       *)
(***************************************************************************)
EXTENDS Integers, Sequences, FiniteSets, TLC

VARIABLES
    now,                     \* Date.now(), in ticks of TickMs milliseconds
    subscriptionTable,       \* the subscription table, keyed by its primary key id
    userDataCache,           \* Map userId -> {data, expiresAt}
    lightweightAuthCache,    \* Map userId -> {data, expiresAt}
    customInstructionsCache, \* Map userId -> {instructions, timestamp, ttl}
    userPreferencesCache,    \* Map userId -> {preferences, timestamp, ttl}
    proUserStatus,           \* performance-cache: userId -> boolean
    subscriptionCache,       \* performance-cache: userId -> SubscriptionDetailsResult
    calls,                   \* the requests in flight, one record per slot
    hooks,                   \* the webhook handlers in flight, one record per slot
    ret,                     \* what the last completed call returned and what it touched
    currentIndex,            \* lib/db: index of the replica selected last
    currentWeight,           \* lib/db: current weight threshold of the round robin
    selected,                \* history: the selections made so far, oldest first
    discount,                \* getDiscountConfig: its inputs and its result
    reddit,                  \* redditSearchTool: the execute call in flight
    client                   \* useCachedUserData: the query, the storage and the hook

cacheVars == <<userDataCache, lightweightAuthCache, customInstructionsCache,
               userPreferencesCache>>
perfVars == <<proUserStatus, subscriptionCache>>
replicaVars == <<currentIndex, currentWeight>>
vars == <<now, subscriptionTable, userDataCache, lightweightAuthCache,
          customInstructionsCache, userPreferencesCache, proUserStatus,
          subscriptionCache, calls, hooks, ret, currentIndex, currentWeight,
          selected, discount, reddit, client>>

----------------------------------------------------------------------------
(* Bounds of the model *)

\* selections recorded in the history of the replica selector
MaxSelections == 9
\* ticks the clock may advance
MaxTicks == 6

\* one tick of the clock, in milliseconds (one minute)
TickMs == 60 * 1000

\* users with a row in the user table, and one session user without a row
UserRows == {"u1", "u2"}
NoSession == "none"
SessionUsers == UserRows \cup {"ghost"}

\* primary keys of the subscription table (Stripe subscription ids)
SubIds == {"sub1", "sub2"}

\* slots for requests in flight and for webhook handlers in flight
CallIds == {1, 2}
HookIds == {1}

----------------------------------------------------------------------------
(* Generic helpers *)

Null == "null"

Max(a, b) == IF a >= b THEN a ELSE b

\* Map.delete(k) on a function whose domain is the set of keys present
MapDelete(m, k) == [x \in DOMAIN m \ {k} |-> m[x]]

\* Map.set(k, v)
MapSet(m, k, v) == [x \in DOMAIN m \cup {k} |-> IF x = k THEN v ELSE m[x]]

EmptyMap == [x \in {} |-> Null]

\* an empty slot, and "no call has just returned"
NoCall == [fn |-> "none"]

----------------------------------------------------------------------------
(* lib/db/index.ts: weighted round-robin selection of a read replica *)

REPLICA_WEIGHTS == <<4, 6>>

RECURSIVE gcd(_, _)
gcd(a, b) == IF b = 0 THEN a ELSE gcd(b, a % b)

MAX_WEIGHT == Max(REPLICA_WEIGHTS[1], REPLICA_WEIGHTS[2])

WEIGHT_GCD == gcd(REPLICA_WEIGHTS[1], REPLICA_WEIGHTS[2])

\* the replicas passed by both callers: [dbread1, dbread2]
NumReplicas == Len(REPLICA_WEIGHTS)

\* (a variant that never resets the threshold, to show the properties depend on it)
NoFloorNextWeight(cw) == cw - WEIGHT_GCD
\* The weight threshold after the index has wrapped to 0 (lines 138-143).
NextWeight(cw) ==
    IF cw - WEIGHT_GCD <= 0 THEN MAX_WEIGHT ELSE cw - WEIGHT_GCD

\* The while (true) loop of selectReplica, from counters (idx, cw), having
\* made `iters` iterations: the counters at the return, the (0-based) index
\* returned and the iterations made.  weights[i] of the code is
\* REPLICA_WEIGHTS[i + 1] here.
RECURSIVE SelectLoop(_, _, _, _)
SelectLoop(idx, cw, n, iters) ==
    LET i == (idx + 1) % n
        w == IF i = 0 THEN NextWeight(cw) ELSE cw
    IN  IF REPLICA_WEIGHTS[i + 1] >= w
        THEN [index |-> i, weight |-> w, iters |-> iters + 1]
        ELSE SelectLoop(i, w, n, iters + 1)

\* selectReplica(replicas) for a list of n replicas (lines 128-149): with
\* an empty list it throws before it touches the counters.
\* (a variant that advances the counters before it throws, to show the properties depend on it)
LateThrowSelectReplica(n) ==
    IF n = 0
    THEN [threw |-> TRUE, index |-> 0, weight |-> NextWeight(currentWeight),
          iters |-> 0]
    ELSE LET r == SelectLoop(currentIndex, currentWeight, n, 0)
         IN  [threw |-> FALSE, index |-> r.index, weight |-> r.weight,
              iters |-> r.iters]
selectReplica(n) ==
    IF n = 0
    THEN [threw |-> TRUE, index |-> currentIndex, weight |-> currentWeight,
          iters |-> 0]
    ELSE LET r == SelectLoop(currentIndex, currentWeight, n, 0)
         IN  [threw |-> FALSE, index |-> r.index, weight |-> r.weight,
              iters |-> r.iters]

\* The effect of one selectReplica call on the module-level counters.
SelectReplicaStep ==
    LET r == selectReplica(NumReplicas)
    IN  /\ currentIndex' = r.index
        /\ currentWeight' = r.weight

\* export function getReadReplica(): selectReplica(db.$replicas)
GetReadReplica ==
    /\ Len(selected) < MaxSelections
    /\ SelectReplicaStep
    /\ selected' = Append(selected, [by |-> "getReadReplica", index |-> currentIndex',
                                     iters |-> selectReplica(NumReplicas).iters])
    /\ ret' = NoCall
    /\ UNCHANGED <<now, subscriptionTable, cacheVars, perfVars, calls, hooks, discount, reddit, client>>

\* the picker given to withReplicas: (replicas) => selectReplica(replicas)
DbReplicaPick ==
    /\ Len(selected) < MaxSelections
    /\ SelectReplicaStep
    /\ selected' = Append(selected, [by |-> "db", index |-> currentIndex',
                                     iters |-> selectReplica(NumReplicas).iters])
    /\ ret' = NoCall
    /\ UNCHANGED <<now, subscriptionTable, cacheVars, perfVars, calls, hooks, discount, reddit, client>>

\* selectReplica([]): the call throws 'No replicas configured' (lines
\* 129-131); neither caller passes an empty list.
SelectReplicaEmpty ==
    /\ LET r == selectReplica(0)
       IN  /\ r.threw
           /\ currentIndex' = r.index
           /\ currentWeight' = r.weight
    /\ ret' = [fn |-> "selectReplica", thrown |-> "No replicas configured"]
    /\ UNCHANGED <<now, subscriptionTable, cacheVars, perfVars, calls, hooks, selected, discount, reddit, client>>

----------------------------------------------------------------------------
(* The subscription table and what the read queries return *)

NowMs == now * TickMs

\* the values of subscription.status the handlers can store
Statuses ==
    {"active", "canceled", "past_due", "trialing", "paused", "incomplete", "unpaid"}

\* the rows of the table that reference user u, each with its id
RowsOf(table, u) ==
    {[id |-> i, plan |-> table[i].plan, status |-> table[i].status,
      periodEnd |-> table[i].periodEnd] :
        i \in {j \in DOMAIN table : table[j].referenceId = u}}

\* select ... from user left join subscription on referenceId = user.id
\* where user.id = userId: no row when the user does not exist, else one
\* row per subscription (or one row of nulls, kept here as the empty set).
JoinUserSubscriptions(table, userId) ==
    [userExists |-> userId \in UserRows,
     subs |-> IF userId \in UserRows THEN RowsOf(table, userId) ELSE {}]

\* rows.filter(status === 'active')
ActiveSubs(subs) == {r \in subs : r.status = "active"}

\* The rows that sort(b.periodEnd - a.periodEnd)[0] can pick: those with
\* the greatest periodEnd (the database fixes no order among equals).
Latest(subs) == {r \in subs : \A q \in subs : q.periodEnd <= r.periodEnd}

NoSubscription == [id |-> "none"]

\* The data getComprehensiveUserData builds from the joined rows (lines
\* 473-545), `active` being the active subscription the sort put first
\* (NoSubscription when there is none) and `latest` the row the second sort
\* put first (used only without an active subscription).
ComprehensiveData(userId, subs, active, latest, t) ==
    [id |-> userId,
     isProUser |-> active # NoSubscription,
     subscriptionStatus |->
        IF active # NoSubscription THEN "active"
        ELSE IF subs = {} THEN "none"
        ELSE IF latest.status = "canceled" THEN "canceled"
        ELSE IF latest.periodEnd < t THEN "expired"
        ELSE "none",
     stripeSubscription |-> active]

\* The data getLightweightUserAuth builds from the joined rows (lines 401-408).
\* (a variant that grants Pro on a row of any status, to show the properties depend on it)
AnyStatusLightweightData(userId, subs) ==
    [userId |-> userId, isProUser |-> subs # {}]
LightweightData(userId, subs) ==
    [userId |-> userId, isProUser |-> \E r \in subs : r.status = "active"]

\* lines 374-378: the lightweight data taken from cached full data
LightweightFromFull(fullCached) ==
    [userId |-> fullCached.id, isProUser |-> fullCached.isProUser]

----------------------------------------------------------------------------
(* lib/user-data-server.ts: the four per-user caches *)

CACHE_TTL_MS == 5 * 60 * 1000
LIGHTWEIGHT_CACHE_TTL_MS == 2 * 60 * 1000
CUSTOM_INSTRUCTIONS_CACHE_TTL_MS == 5 * 60 * 1000
USER_PREFERENCES_CACHE_TTL_MS == 5 * 60 * 1000

\* getCachedUserData(userId) at time t: whether it returns data, the entry
\* it returns and the map it leaves behind
\* (a variant that still returns an entry at its expiry time, to show the properties depend on it)
StaleGetCachedUserData(cache, userId, t) ==
    IF userId \in DOMAIN cache /\ cache[userId].expiresAt >= t
    THEN [hit |-> TRUE, entry |-> cache[userId], cache |-> cache]
    ELSE [hit |-> FALSE, cache |-> MapDelete(cache, userId)]
getCachedUserData(cache, userId, t) ==
    IF userId \in DOMAIN cache /\ cache[userId].expiresAt > t
    THEN [hit |-> TRUE, entry |-> cache[userId], cache |-> cache]
    ELSE [hit |-> FALSE, cache |-> MapDelete(cache, userId)]

\* setCachedUserData(userId, data) at time t; storedAt, stores and
\* readBefore are history the code does not keep: the time of the set, the
\* data every set has put under the key since it last held no live entry,
\* and whether the data comes from a read older than a finished webhook's
\* update (set by ReadBefore below)
setCachedUserData(cache, userId, data, t) ==
    MapSet(cache, userId,
           [data |-> data, expiresAt |-> t + CACHE_TTL_MS, storedAt |-> t,
            readBefore |-> FALSE,
            stores |-> {data} \cup
                (IF userId \in DOMAIN cache /\ cache[userId].expiresAt > t
                 THEN cache[userId].stores ELSE {})])

\* getCachedLightweightAuth(userId) at time t
getCachedLightweightAuth(cache, userId, t) ==
    IF userId \in DOMAIN cache /\ cache[userId].expiresAt > t
    THEN [hit |-> TRUE, entry |-> cache[userId], cache |-> cache]
    ELSE [hit |-> FALSE, cache |-> MapDelete(cache, userId)]

\* setCachedLightweightAuth(userId, data) at time t
setCachedLightweightAuth(cache, userId, data, t) ==
    MapSet(cache, userId,
           [data |-> data, expiresAt |-> t + LIGHTWEIGHT_CACHE_TTL_MS, storedAt |-> t,
            readBefore |-> FALSE])

\* history: the entry of userId in cache comes from a read for which
\* `before` holds
ReadBefore(cache, userId, before) == [cache EXCEPT ![userId].readBefore = before]

\* clearUserDataCache(userId): the four maps afterwards
\* (a variant that leaves the lightweight entry in place, to show the properties depend on it)
ForgetfulClearUserDataCache(caches, userId) ==
    [userData |-> MapDelete(caches.userData, userId),
     lightweight |-> caches.lightweight,
     instructions |-> MapDelete(caches.instructions, userId),
     preferences |-> MapDelete(caches.preferences, userId)]
clearUserDataCache(caches, userId) ==
    [userData |-> MapDelete(caches.userData, userId),
     lightweight |-> MapDelete(caches.lightweight, userId),
     instructions |-> MapDelete(caches.instructions, userId),
     preferences |-> MapDelete(caches.preferences, userId)]

\* clearAllUserDataCache(): the four maps afterwards
clearAllUserDataCache(caches) ==
    [userData |-> EmptyMap, lightweight |-> EmptyMap,
     instructions |-> EmptyMap, preferences |-> EmptyMap]

\* the four maps as one record, and their assignment
Caches ==
    [userData |-> userDataCache, lightweight |-> lightweightAuthCache,
     instructions |-> customInstructionsCache, preferences |-> userPreferencesCache]

SetCaches(c) ==
    /\ userDataCache' = c.userData
    /\ lightweightAuthCache' = c.lightweight
    /\ customInstructionsCache' = c.instructions
    /\ userPreferencesCache' = c.preferences

----------------------------------------------------------------------------
(* lib/user-data-server.ts: the requests *)

NullValue == [kind |-> "null"]
DataValue(d) == [kind |-> "data", data |-> d]
NoEntry == [expiresAt |-> 0, storedAt |-> 0]

\* What a call that has just returned leaves in ret: its name, the session
\* user (or userId argument), the value returned, where the value came from
\* ("none", "cache", "fullCache", "db", "dbError"), the database queries it
\* issued, whether it read or wrote any cache, and the cache entry it
\* returned, if any.
Return(fn, user, value, source, dbQueries, cacheTouched, entry) ==
    [fn |-> fn, user |-> user, value |-> value, source |-> source,
     dbQueries |-> dbQueries, cacheTouched |-> cacheTouched, entry |-> entry]

\* !session?.user?.id
\* (a variant that goes on without a session, to show the properties depend on it)
NeverMissing(session) == FALSE
SessionMissing(session) == session = NoSession

\* a request waiting for its database query; expired records that the
\* lookup found an expired entry
Querying(fn, user, expired) ==
    [fn |-> fn, pc |-> "query", user |-> user, expired |-> expired]

mainFrame == <<now, subscriptionTable, perfVars, hooks, selected, discount, reddit, client>>

\* getComprehensiveUserData() up to its database query (lines 420-467)
GetComprehensiveUserDataStart(c, session) ==
    /\ calls[c] = NoCall
    /\ IF SessionMissing(session)
       THEN /\ ret' = Return("getComprehensiveUserData", session, NullValue,
                             "none", 0, FALSE, NoEntry)
            /\ UNCHANGED <<calls, cacheVars, replicaVars>>
       ELSE LET look == getCachedUserData(userDataCache, session, NowMs)
            IN  IF look.hit
                THEN /\ ret' = Return("getComprehensiveUserData", session,
                                      DataValue(look.entry.data), "cache", 0, TRUE,
                                      look.entry)
                     /\ UNCHANGED <<calls, cacheVars, replicaVars>>
                ELSE /\ userDataCache' = look.cache
                     /\ SelectReplicaStep
                     /\ calls' = [calls EXCEPT ![c] =
                            Querying("getComprehensiveUserData", session,
                                     session \in DOMAIN userDataCache)]
                     /\ ret' = NoCall
                     /\ UNCHANGED <<lightweightAuthCache, customInstructionsCache,
                                    userPreferencesCache>>
    /\ UNCHANGED mainFrame

\* getLightweightUserAuth() up to its database query (lines 353-395)
GetLightweightUserAuthStart(c, session) ==
    /\ calls[c] = NoCall
    /\ IF SessionMissing(session)
       THEN /\ ret' = Return("getLightweightUserAuth", session, NullValue,
                             "none", 0, FALSE, NoEntry)
            /\ UNCHANGED <<calls, cacheVars, replicaVars>>
       ELSE LET light == getCachedLightweightAuth(lightweightAuthCache, session, NowMs)
                full == getCachedUserData(userDataCache, session, NowMs)
            IN  IF light.hit
                THEN /\ ret' = Return("getLightweightUserAuth", session,
                                      DataValue(light.entry.data), "cache", 0, TRUE,
                                      light.entry)
                     /\ UNCHANGED <<calls, cacheVars, replicaVars>>
                ELSE IF full.hit
                THEN /\ lightweightAuthCache' =
                            ReadBefore(
                                setCachedLightweightAuth(light.cache, session,
                                    LightweightFromFull(full.entry.data), NowMs),
                                session, full.entry.readBefore)
                     /\ ret' = Return("getLightweightUserAuth", session,
                                      DataValue(LightweightFromFull(full.entry.data)),
                                      "fullCache", 0, TRUE, full.entry)
                     /\ UNCHANGED <<calls, userDataCache, customInstructionsCache,
                                    userPreferencesCache, replicaVars>>
                ELSE /\ lightweightAuthCache' = light.cache
                     /\ userDataCache' = full.cache
                     /\ SelectReplicaStep
                     /\ calls' = [calls EXCEPT ![c] =
                            Querying("getLightweightUserAuth", session,
                                     session \in DOMAIN lightweightAuthCache)]
                     /\ ret' = NoCall
                     /\ UNCHANGED <<customInstructionsCache, userPreferencesCache>>
    /\ UNCHANGED mainFrame

\* The database answers the join query of request c (lines 386-395, 443-467).
\* update is history: whether a webhook has updated the rows of the user
\* since this read ("none"), and whether that webhook is still running
\* ("running") or has invalidated the caches and returned ("finished").
DbAnswer(c) ==
    /\ calls[c].fn \in {"getComprehensiveUserData", "getLightweightUserAuth"}
    /\ calls[c].pc = "query"
    /\ calls' = [calls EXCEPT ![c] =
            [fn |-> calls[c].fn, pc |-> "fetched", user |-> calls[c].user,
             rows |-> JoinUserSubscriptions(subscriptionTable, calls[c].user),
             update |-> "none"]]
    /\ ret' = NoCall
    /\ UNCHANGED <<cacheVars, replicaVars>>
    /\ UNCHANGED mainFrame

\* The join query of request c fails: the catch block returns null
\* (lines 414-417, 551-554).
DbFail(c) ==
    /\ calls[c].fn \in {"getComprehensiveUserData", "getLightweightUserAuth"}
    /\ calls[c].pc = "query"
    /\ calls' = [calls EXCEPT ![c] = NoCall]
    /\ ret' = Return(calls[c].fn, calls[c].user, NullValue, "dbError", 1, TRUE, NoEntry)
    /\ UNCHANGED <<cacheVars, replicaVars>>
    /\ UNCHANGED mainFrame

\* getComprehensiveUserData() after its query (lines 469-550)
GetComprehensiveUserDataResume(c) ==
    /\ calls[c].fn = "getComprehensiveUserData"
    /\ calls[c].pc = "fetched"
    /\ calls' = [calls EXCEPT ![c] = NoCall]
    /\ LET u == calls[c].user
           subs == calls[c].rows.subs
       IN  IF ~calls[c].rows.userExists
           THEN /\ ret' = Return("getComprehensiveUserData", u, NullValue, "db", 1,
                                 TRUE, NoEntry)
                /\ UNCHANGED cacheVars
           ELSE \E active \in (IF ActiveSubs(subs) = {} THEN {NoSubscription}
                                ELSE Latest(ActiveSubs(subs))),
                   latest \in (IF subs = {} THEN {NoSubscription} ELSE Latest(subs)) :
                    LET data == ComprehensiveData(u, subs, active, latest, NowMs)
                    IN  /\ userDataCache' =
                               ReadBefore(
                                   setCachedUserData(userDataCache, u, data, NowMs),
                                   u, calls[c].update = "finished")
                        /\ ret' = Return("getComprehensiveUserData", u,
                                         DataValue(data), "db", 1, TRUE, NoEntry)
                        /\ UNCHANGED <<lightweightAuthCache, customInstructionsCache,
                                       userPreferencesCache>>
    /\ UNCHANGED replicaVars
    /\ UNCHANGED mainFrame

\* getLightweightUserAuth() after its query (lines 397-413)
GetLightweightUserAuthResume(c) ==
    /\ calls[c].fn = "getLightweightUserAuth"
    /\ calls[c].pc = "fetched"
    /\ calls' = [calls EXCEPT ![c] = NoCall]
    /\ LET u == calls[c].user
           data == LightweightData(u, calls[c].rows.subs)
       IN  IF ~calls[c].rows.userExists
           THEN /\ ret' = Return("getLightweightUserAuth", u, NullValue, "db", 1,
                                 TRUE, NoEntry)
                /\ UNCHANGED cacheVars
           ELSE /\ lightweightAuthCache' =
                       ReadBefore(
                           setCachedLightweightAuth(lightweightAuthCache, u, data,
                                                    NowMs),
                           u, calls[c].update = "finished")
                /\ ret' = Return("getLightweightUserAuth", u, DataValue(data), "db",
                                 1, TRUE, NoEntry)
                /\ UNCHANGED <<userDataCache, customInstructionsCache,
                               userPreferencesCache>>
    /\ UNCHANGED replicaVars
    /\ UNCHANGED mainFrame

\* options?.ttlMs: absent, or a number of milliseconds
NoTtl == [given |-> FALSE]
TtlMs(n) == [given |-> TRUE, ms |-> n]

\* options?.ttlMs ?? DEFAULT (lines 292, 323)
TtlOrDefault(opt, default) == IF opt.given THEN opt.ms ELSE default

\* what getCustomInstructionsByUserId / getUserPreferencesByUserId read
\* (lib/db/queries.ts): u1 has both stored, the others have none
StoredFor(kind, userId) == IF userId = "u1" THEN kind \o ":u1" ELSE "null"

\* cached && Date.now() - cached.timestamp < cached.ttl (lines 294, 325)
\* (a variant that still returns a value as old as its ttl, to show the properties depend on it)
InclusiveIsFresh(cache, userId, t, callTtl) ==
    userId \in DOMAIN cache /\ t - cache[userId].timestamp <= cache[userId].ttl
IsFresh(cache, userId, t, callTtl) ==
    userId \in DOMAIN cache /\ t - cache[userId].timestamp < cache[userId].ttl

\* the map of a kind ("instructions" or "preferences") and its functions
CacheOf(kind) ==
    IF kind = "instructions" THEN customInstructionsCache ELSE userPreferencesCache

GetterOf(kind) ==
    IF kind = "instructions" THEN "getCachedCustomInstructionsByUserId"
    ELSE "getCachedUserPreferencesByUserId"

DefaultTtlOf(kind) ==
    IF kind = "instructions" THEN CUSTOM_INSTRUCTIONS_CACHE_TTL_MS
    ELSE USER_PREFERENCES_CACHE_TTL_MS

SetCacheOf(kind, m) ==
    IF kind = "instructions"
    THEN customInstructionsCache' = m /\ UNCHANGED userPreferencesCache
    ELSE userPreferencesCache' = m /\ UNCHANGED customInstructionsCache

\* as Return, for the two getters: with the ttlMs the call asked for
ReturnCached(fn, user, value, source, dbQueries, entry, ttlMs) ==
    [fn |-> fn, user |-> user, value |-> value, source |-> source,
     dbQueries |-> dbQueries, cacheTouched |-> TRUE, entry |-> entry, ttlMs |-> ttlMs]

\* getCachedCustomInstructionsByUserId(userId, options) and
\* getCachedUserPreferencesByUserId(userId, options) up to the database
\* query (lines 288-298, 319-329)
GetCachedByUserIdStart(c, kind, userId, opt) ==
    /\ calls[c] = NoCall
    /\ LET ttlMs == TtlOrDefault(opt, DefaultTtlOf(kind))
       IN  IF IsFresh(CacheOf(kind), userId, NowMs, ttlMs)
           THEN /\ ret' = ReturnCached(GetterOf(kind), userId,
                                       CacheOf(kind)[userId].value, "cache", 0,
                                       CacheOf(kind)[userId], ttlMs)
                /\ UNCHANGED calls
           ELSE /\ calls' = [calls EXCEPT ![c] =
                       [fn |-> GetterOf(kind), pc |-> "query", kind |-> kind,
                        user |-> userId, ttlMs |-> ttlMs]]
                /\ ret' = NoCall
    /\ UNCHANGED <<cacheVars, replicaVars>>
    /\ UNCHANGED mainFrame

\* The database answers the query of the getter in slot c.
GetCachedByUserIdAnswer(c) ==
    /\ calls[c].fn \in {GetterOf("instructions"), GetterOf("preferences")}
    /\ calls[c].pc = "query"
    /\ calls' = [calls EXCEPT ![c] =
            [fn |-> calls[c].fn, pc |-> "fetched", kind |-> calls[c].kind,
             user |-> calls[c].user, ttlMs |-> calls[c].ttlMs,
             value |-> StoredFor(calls[c].kind, calls[c].user)]]
    /\ ret' = NoCall
    /\ UNCHANGED <<cacheVars, replicaVars>>
    /\ UNCHANGED mainFrame

\* The query of the getter in slot c fails: the getter throws.
GetCachedByUserIdFail(c) ==
    /\ calls[c].fn \in {GetterOf("instructions"), GetterOf("preferences")}
    /\ calls[c].pc = "query"
    /\ calls' = [calls EXCEPT ![c] = NoCall]
    /\ ret' = ReturnCached(calls[c].fn, calls[c].user, "throws", "dbError", 1,
                           NoEntry, calls[c].ttlMs)
    /\ UNCHANGED <<cacheVars, replicaVars>>
    /\ UNCHANGED mainFrame

\* The getter in slot c after its query (lines 299-304, 330-335)
GetCachedByUserIdResume(c) ==
    /\ calls[c].fn \in {GetterOf("instructions"), GetterOf("preferences")}
    /\ calls[c].pc = "fetched"
    /\ SetCacheOf(calls[c].kind,
                  MapSet(CacheOf(calls[c].kind), calls[c].user,
                         [value |-> calls[c].value, timestamp |-> NowMs,
                          ttl |-> calls[c].ttlMs]))
    /\ calls' = [calls EXCEPT ![c] = NoCall]
    /\ ret' = ReturnCached(calls[c].fn, calls[c].user, calls[c].value, "db", 1,
                           NoEntry, calls[c].ttlMs)
    /\ UNCHANGED <<userDataCache, lightweightAuthCache, replicaVars>>
    /\ UNCHANGED mainFrame

\* in how many of the four maps userId has an entry
EntriesOf(userId) ==
    Cardinality({k \in {"userData", "lightweight", "instructions", "preferences"} :
                    userId \in DOMAIN Caches[k]})

\* clearUserDataCache(userId), called directly; the value returned is
\* history: in how many maps the user had an entry
ClearUserDataCache(u) ==
    /\ SetCaches(clearUserDataCache(Caches, u))
    /\ ret' = Return("clearUserDataCache", u, DataValue(EntriesOf(u)), "none", 0,
                     TRUE, NoEntry)
    /\ UNCHANGED <<calls, replicaVars>>
    /\ UNCHANGED mainFrame

\* clearAllUserDataCache()
ClearAllUserDataCache ==
    /\ SetCaches(clearAllUserDataCache(Caches))
    /\ ret' = Return("clearAllUserDataCache", NoSession, NullValue, "none", 0, TRUE,
                     NoEntry)
    /\ UNCHANGED <<calls, replicaVars>>
    /\ UNCHANGED mainFrame

\* The clock advances by one tick, up to `limit` ticks.
Tick(limit) ==
    /\ now < limit
    /\ now' = now + 1
    /\ ret' = NoCall
    /\ UNCHANGED <<subscriptionTable, cacheVars, perfVars, calls, hooks,
                   replicaVars, selected, discount, reddit, client>>

----------------------------------------------------------------------------
(* lib/subscription.ts: the Pro-status helpers.  Each runs here in one      *)
(* step: its database reads see the table of that moment, and each read     *)
(* either succeeds or fails.                                                *)

BoolValue(b) == [kind |-> "bool", bool |-> b]
StatusValue(st) == [kind |-> "status", status |-> st]

\* the counters after one more selectReplica call
SelectOnce(st) ==
    LET r == SelectLoop(st.index, st.weight, NumReplicas, 0)
    IN  [index |-> r.index, weight |-> r.weight]

RECURSIVE SelectTimes(_, _)
SelectTimes(st, n) == IF n = 0 THEN st ELSE SelectTimes(SelectOnce(st), n - 1)

\* n calls of getReadReplica()
GetReadReplicaTimes(n) ==
    LET st == SelectTimes([index |-> currentIndex, weight |-> currentWeight], n)
    IN  currentIndex' = st.index /\ currentWeight' = st.weight

\* getComprehensiveProStatus(userId) (lines 31-50); ok: the read succeeds
getComprehensiveProStatus(table, userId, ok) ==
    IF ok /\ \E r \in RowsOf(table, userId) : r.status = "active"
    THEN [isProUser |-> TRUE, source |-> "stripe"]
    ELSE [isProUser |-> FALSE, source |-> "none"]

\* lib/performance-cache.ts: getProUserStatus(userId), null when absent
HasProUserStatus(userId) == userId \in DOMAIN proUserStatus

\* lib/performance-cache.ts: setProUserStatus(userId, isProUser)
setProUserStatus(cache, userId, isProUser) == MapSet(cache, userId, isProUser)

subFrame == <<now, subscriptionTable, cacheVars, calls, hooks, selected, discount,
             reddit, client>>

ReadSource(ok) == IF ok THEN "db" ELSE "dbError"

\* isUserSubscribed() (lines 160-177)
IsUserSubscribed(session, ok) ==
    /\ IF SessionMissing(session)
       THEN /\ ret' = Return("isUserSubscribed", session, BoolValue(FALSE), "none",
                             0, FALSE, NoEntry)
            /\ UNCHANGED replicaVars
       ELSE /\ GetReadReplicaTimes(1)
            /\ ret' = Return("isUserSubscribed", session,
                    BoolValue(getComprehensiveProStatus(subscriptionTable, session,
                                                        ok).isProUser),
                    ReadSource(ok), 1, FALSE, NoEntry)
    /\ UNCHANGED perfVars
    /\ UNCHANGED subFrame

\* getProStatusWithSource() (lines 254-273)
GetProStatusWithSource(session, ok) ==
    /\ IF SessionMissing(session)
       THEN /\ ret' = Return("getProStatusWithSource", session,
                             DataValue([isProUser |-> FALSE, source |-> "none"]),
                             "none", 0, FALSE, NoEntry)
            /\ UNCHANGED replicaVars
       ELSE /\ GetReadReplicaTimes(1)
            /\ ret' = Return("getProStatusWithSource", session,
                    DataValue(getComprehensiveProStatus(subscriptionTable, session, ok)),
                    ReadSource(ok), 1, FALSE, NoEntry)
    /\ UNCHANGED perfVars
    /\ UNCHANGED subFrame

\* isUserProCached() (lines 180-199)
IsUserProCached(session, ok) ==
    /\ IF SessionMissing(session)
       THEN /\ ret' = Return("isUserProCached", session, BoolValue(FALSE), "none", 0,
                             FALSE, NoEntry)
            /\ UNCHANGED <<replicaVars, perfVars>>
       ELSE IF HasProUserStatus(session)
       THEN /\ ret' = Return("isUserProCached", session,
                             BoolValue(proUserStatus[session]), "cache", 0, TRUE,
                             NoEntry)
            /\ UNCHANGED <<replicaVars, perfVars>>
       ELSE LET pro == getComprehensiveProStatus(subscriptionTable, session, ok)
            IN  /\ GetReadReplicaTimes(1)
                /\ proUserStatus' =
                       setProUserStatus(proUserStatus, session, pro.isProUser)
                /\ ret' = Return("isUserProCached", session,
                                 BoolValue(pro.isProUser), ReadSource(ok), 1, TRUE,
                                 NoEntry)
                /\ UNCHANGED subscriptionCache
    /\ UNCHANGED subFrame

\* SubscriptionDetailsResult: hasSubscription, the subscription and the
\* errorType ("" when there is no error)
DetailsResult(has, sub, errorType) ==
    [hasSubscription |-> has, subscription |-> sub, errorType |-> errorType]

\* What getSubscriptionDetails() does for a session user (lines 64-156):
\* the result, the two performance caches afterwards, the getReadReplica
\* calls and the queries made.  ok1 is the outcome of its own read, ok2 that
\* of the read inside getComprehensiveProStatus; first is the row the
\* database listed first, firstActive the active row it listed first.
SubscriptionDetailsFor(userId, ok1, ok2, first, firstActive) ==
    LET rows == RowsOf(subscriptionTable, userId)
        pro == getComprehensiveProStatus(subscriptionTable, userId, ok2)
        withPro(result, isPro, selects, queries) ==
            [value |-> result,
             subscriptionCache |-> MapSet(subscriptionCache, userId, result),
             proUserStatus |-> setProUserStatus(proUserStatus, userId, isPro),
             selects |-> selects, dbQueries |-> queries]
    IN  IF userId \in DOMAIN subscriptionCache
        THEN [value |-> subscriptionCache[userId],
              subscriptionCache |-> subscriptionCache,
              proUserStatus |-> setProUserStatus(proUserStatus, userId, pro.isProUser),
              selects |-> 2, dbQueries |-> 1]
        ELSE IF ~ok1
        THEN [value |-> DetailsResult(FALSE, NoSubscription, "GENERAL"),
              subscriptionCache |-> subscriptionCache,
              proUserStatus |-> proUserStatus,
              selects |-> 1, dbQueries |-> 1]
        ELSE IF rows = {}
        THEN withPro(DetailsResult(FALSE, NoSubscription, ""), pro.isProUser, 2, 2)
        ELSE IF firstActive = NoSubscription
        THEN withPro(DetailsResult(TRUE, first,
                        IF first.status = "canceled" THEN "CANCELED"
                        ELSE IF first.periodEnd < NowMs THEN "EXPIRED"
                        ELSE "GENERAL"),
                     pro.isProUser, 2, 2)
        ELSE withPro(DetailsResult(TRUE, firstActive, ""), TRUE, 1, 1)

\* the rows userSubscriptions[0] and filter(active)[0] can be
FirstRows(userId) ==
    LET rows == RowsOf(subscriptionTable, userId)
    IN  IF rows = {} THEN {NoSubscription} ELSE rows

FirstActiveRows(userId) ==
    LET rows == ActiveSubs(RowsOf(subscriptionTable, userId))
    IN  IF rows = {} THEN {NoSubscription} ELSE rows

\* getSubscriptionDetails() (lines 52-157)
GetSubscriptionDetails(session, ok1, ok2) ==
    /\ IF SessionMissing(session)
       THEN /\ ret' = Return("getSubscriptionDetails", session,
                             DataValue(DetailsResult(FALSE, NoSubscription, "")),
                             "none", 0, FALSE, NoEntry)
            /\ UNCHANGED <<replicaVars, perfVars>>
       ELSE \E first \in FirstRows(session), firstActive \in FirstActiveRows(session) :
                LET out == SubscriptionDetailsFor(session, ok1, ok2, first, firstActive)
                IN  /\ GetReadReplicaTimes(out.selects)
                    /\ proUserStatus' = out.proUserStatus
                    /\ subscriptionCache' = out.subscriptionCache
                    /\ ret' = Return("getSubscriptionDetails", session,
                                     DataValue(out.value),
                                     IF session \in DOMAIN subscriptionCache
                                     THEN "cache" ELSE ReadSource(ok1),
                                     out.dbQueries, TRUE, NoEntry)
    /\ UNCHANGED subFrame

\* the status getUserSubscriptionStatus() derives from the details (lines 230-246)
StatusOfDetails(result) ==
    IF ~result.hasSubscription THEN "none"
    ELSE IF result.subscription.status = "active" THEN "active"
    ELSE IF result.errorType = "CANCELED" THEN "canceled"
    ELSE IF result.errorType = "EXPIRED" THEN "expired"
    ELSE "none"

\* getUserSubscriptionStatus() of lib/subscription.ts (lines 210-251); ok0
\* is the outcome of its own Pro-status read
GetUserSubscriptionStatus(session, ok0, ok1, ok2) ==
    /\ IF SessionMissing(session)
       THEN /\ ret' = Return("getUserSubscriptionStatus", session,
                             StatusValue("none"), "none", 0, FALSE, NoEntry)
            /\ UNCHANGED <<replicaVars, perfVars>>
       ELSE IF getComprehensiveProStatus(subscriptionTable, session, ok0).isProUser
       THEN /\ GetReadReplicaTimes(1)
            /\ ret' = Return("getUserSubscriptionStatus", session,
                             StatusValue("active"), "db", 1, FALSE, NoEntry)
            /\ UNCHANGED perfVars
       ELSE \E first \in FirstRows(session), firstActive \in FirstActiveRows(session) :
                LET out == SubscriptionDetailsFor(session, ok1, ok2, first, firstActive)
                IN  /\ GetReadReplicaTimes(1 + out.selects)
                    /\ proUserStatus' = out.proUserStatus
                    /\ subscriptionCache' = out.subscriptionCache
                    /\ ret' = Return("getUserSubscriptionStatus", session,
                                     StatusValue(StatusOfDetails(out.value)),
                                     ReadSource(ok0), 1 + out.dbQueries, TRUE, NoEntry)
    /\ UNCHANGED subFrame

----------------------------------------------------------------------------
(* lib/auth.ts: the Stripe webhook handlers *)

SubscriptionEventTypes ==
    {"customer.subscription.created", "customer.subscription.updated",
     "customer.subscription.deleted", "customer.subscription.paused",
     "customer.subscription.resumed", "customer.subscription.trial_will_end"}

OtherEventTypes == {"invoice.paid"}

\* event.type.startsWith('customer.subscription.')
IsSubscriptionEvent(type) == type \in SubscriptionEventTypes

StripeStatuses ==
    {"active", "canceled", "past_due", "unpaid", "trialing", "paused", "incomplete"}

Customers == {"cus1", "cus2"}

\* mapStripeStatus of handleStripeSubscriptionEvent (lines 90-100)
\* (a variant that leaves 'unpaid' as it is, to show the properties depend on it)
IdentityMapStripeStatus(stripeStatus) == stripeStatus
mapStripeStatus(stripeStatus) ==
    CASE stripeStatus = "active" -> "active"
      [] stripeStatus = "canceled" -> "canceled"
      [] stripeStatus \in {"past_due", "unpaid"} -> "past_due"
      [] stripeStatus = "trialing" -> "trialing"
      [] stripeStatus = "paused" -> "paused"
      [] OTHER -> stripeStatus

\* eventTypeToStatus[event.type] || subscription.status (lines 79-87)
EventStatus(type, stripeStatus) ==
    CASE type = "customer.subscription.created" -> "active"
      [] type = "customer.subscription.updated" -> mapStripeStatus(stripeStatus)
      [] type = "customer.subscription.deleted" -> "canceled"
      [] type = "customer.subscription.paused" -> "paused"
      [] type = "customer.subscription.resumed" -> "active"
      [] OTHER -> stripeStatus

\* mapStripeStatus of onSubscriptionUpdate (lines 238-252)
mapStripeStatusOnUpdate(stripeStatus) ==
    CASE stripeStatus = "active" -> "active"
      [] stripeStatus = "canceled" -> "canceled"
      [] stripeStatus \in {"past_due", "unpaid"} -> "past_due"
      [] stripeStatus = "trialing" -> "trialing"
      [] OTHER -> stripeStatus

\* A Stripe event: its type and, of the subscription it carries, the id, the
\* customer, metadata.userId ("" when absent), the status and
\* current_period_end * 1000.
StripeEvents(types, ids, customers, metaUsers, statuses, periodEnds) ==
    [type : types, id : ids, customer : customers, metadataUserId : metaUsers,
     status : statuses, periodEnd : periodEnds]

\* subscriptionData of handleStripeSubscriptionEvent (lines 103-118); the
\* dates other than periodEnd are copied from the event and read by nothing
\* modelled here
\* (a variant that stores the customer id as stripeSubscriptionId, to show the properties depend on it)
CustomerAsSubscriptionData(ev, userId) ==
    [plan |-> "pro", referenceId |-> userId, stripeCustomerId |-> ev.customer,
     stripeSubscriptionId |-> ev.customer,
     status |-> EventStatus(ev.type, ev.status), periodEnd |-> ev.periodEnd]
SubscriptionData(ev, userId) ==
    [plan |-> "pro", referenceId |-> userId, stripeCustomerId |-> ev.customer,
     stripeSubscriptionId |-> ev.id,
     status |-> EventStatus(ev.type, ev.status), periodEnd |-> ev.periodEnd]

\* subscriptionData of onSubscriptionUpdate (lines 255-270), sub being the
\* subscription record Better Auth passes
SubscriptionDataOnUpdate(ev, sub) ==
    [plan |-> IF sub.plan = "" THEN "pro" ELSE sub.plan,
     referenceId |-> sub.referenceId, stripeCustomerId |-> ev.customer,
     stripeSubscriptionId |-> ev.id,
     status |-> mapStripeStatusOnUpdate(ev.status), periodEnd |-> ev.periodEnd]

\* insert(...).values(data).onConflictDoUpdate({target: id, set: ...})
Upsert(table, id, data) == MapSet(table, id, data)

\* invalidateUserCaches(userId) of lib/performance-cache.ts
invalidateUserCaches(perf, userId) ==
    [proUserStatus |-> MapDelete(perf.proUserStatus, userId),
     subscriptionCache |-> MapDelete(perf.subscriptionCache, userId)]

\* a handler waiting for its upsert of `data` under the subscription id of
\* its event
Upserting(fn, userId, ev, data) ==
    [fn |-> fn, pc |-> "upsert", userId |-> userId, event |-> ev, id |-> ev.id,
     data |-> data]

hookFrame == <<now, calls, selected, discount, reddit, client>>

\* onEvent -> handleStripeSubscriptionEvent(event) up to its first await
\* (lines 53-76, 316-325): with metadata.userId it goes on to the upsert,
\* without it asks the database for a subscription of the same customer.
HandleStripeSubscriptionEventStart(h, ev) ==
    /\ hooks[h] = NoCall
    /\ IsSubscriptionEvent(ev.type)
    /\ IF ev.metadataUserId # ""
       THEN /\ hooks' = [hooks EXCEPT ![h] =
                   Upserting("handleStripeSubscriptionEvent", ev.metadataUserId,
                             ev, SubscriptionData(ev, ev.metadataUserId))]
            /\ UNCHANGED replicaVars
       ELSE /\ hooks' = [hooks EXCEPT ![h] =
                   [fn |-> "handleStripeSubscriptionEvent", pc |-> "lookup",
                    event |-> ev]]
            /\ SelectReplicaStep
    /\ ret' = NoCall
    /\ UNCHANGED <<subscriptionTable, cacheVars, perfVars>>
    /\ UNCHANGED hookFrame

\* the referenceId values findFirst(where stripeCustomerId = customer) can
\* yield: that of any matching row, or "" when there is none
FindFirstByCustomer(table, customer) ==
    LET found == {table[i].referenceId :
                     i \in {j \in DOMAIN table : table[j].stripeCustomerId = customer}}
    IN  IF found = {} THEN {""} ELSE found

\* The lookup by customer is answered (lines 66-76): without a user id the
\* handler returns, with one it goes on to the upsert.
HandleStripeSubscriptionEventLookup(h) ==
    /\ hooks[h].fn = "handleStripeSubscriptionEvent"
    /\ hooks[h].pc = "lookup"
    /\ \E userId \in FindFirstByCustomer(subscriptionTable, hooks[h].event.customer) :
          IF userId = ""
          THEN /\ hooks' = [hooks EXCEPT ![h] = NoCall]
               /\ ret' = Return("handleStripeSubscriptionEvent", userId, NullValue,
                                "noUser", 1, FALSE, NoEntry)
          ELSE /\ hooks' = [hooks EXCEPT ![h] =
                      Upserting("handleStripeSubscriptionEvent", userId,
                                hooks[h].event,
                                SubscriptionData(hooks[h].event, userId))]
               /\ ret' = NoCall
    /\ UNCHANGED <<subscriptionTable, cacheVars, perfVars, replicaVars>>
    /\ UNCHANGED hookFrame

\* onSubscriptionUpdate({event, subscription: sub}) up to its upsert
\* (lines 225-270)
OnSubscriptionUpdateStart(h, ev, sub) ==
    /\ hooks[h] = NoCall
    /\ IF IsSubscriptionEvent(ev.type) /\ sub.referenceId # ""
       THEN /\ hooks' = [hooks EXCEPT ![h] =
                   Upserting("onSubscriptionUpdate", sub.referenceId, ev,
                             SubscriptionDataOnUpdate(ev, sub))]
            /\ ret' = NoCall
       ELSE /\ ret' = Return("onSubscriptionUpdate", sub.referenceId, NullValue,
                             "noUser", 0, FALSE, NoEntry)
            /\ UNCHANGED hooks
    /\ UNCHANGED <<subscriptionTable, cacheVars, perfVars, replicaVars>>
    /\ UNCHANGED hookFrame

\* history: the requests of userId that hold rows read before an update
\* move from one stage of that update to the next
UpdateSeen(cs, userId, from, to) ==
    [c \in DOMAIN cs |->
        IF cs[c].fn \in {"getComprehensiveUserData", "getLightweightUserAuth"}
           /\ cs[c].pc = "fetched" /\ cs[c].user = userId /\ cs[c].update = from
        THEN [cs[c] EXCEPT !.update = to]
        ELSE cs[c]]

\* The database commits the upsert of handler h (lines 128-148, 280-300).
UpsertCommit(h) ==
    /\ hooks[h] # NoCall
    /\ hooks[h].pc = "upsert"
    /\ subscriptionTable' = Upsert(subscriptionTable, hooks[h].id, hooks[h].data)
    /\ hooks' = [hooks EXCEPT ![h] =
            [hooks[h] EXCEPT !.pc = "upserted"]]
    /\ calls' = UpdateSeen(calls, hooks[h].userId, "none", "running")
    /\ ret' = NoCall
    /\ UNCHANGED <<cacheVars, perfVars, replicaVars>>
    /\ UNCHANGED <<now, selected, discount, reddit, client>>

\* the user id a handler holds while its query is awaited, "" before it is
\* resolved
HookUserId(hook) == IF hook.pc = "upsert" THEN hook.userId ELSE ""

\* A query of handler h throws: the catch block logs and the handler
\* returns (lines 158-160, 311-313).
\* (a variant in which the insert takes effect before it throws, to show the properties depend on it)
HalfDoneHookQueryFail(h) ==
    /\ hooks[h] # NoCall
    /\ hooks[h].pc \in {"lookup", "upsert"}
    /\ hooks' = [hooks EXCEPT ![h] = NoCall]
    /\ ret' = Return(hooks[h].fn, HookUserId(hooks[h]), NullValue, "dbError", 1,
                     FALSE, NoEntry)
    /\ subscriptionTable' = IF hooks[h].pc = "upsert"
                            THEN Upsert(subscriptionTable, hooks[h].id, hooks[h].data)
                            ELSE subscriptionTable
    /\ UNCHANGED <<cacheVars, perfVars, replicaVars>>
    /\ UNCHANGED hookFrame
HookQueryFail(h) ==
    /\ hooks[h] # NoCall
    /\ hooks[h].pc \in {"lookup", "upsert"}
    /\ hooks' = [hooks EXCEPT ![h] = NoCall]
    /\ ret' = Return(hooks[h].fn, HookUserId(hooks[h]), NullValue, "dbError", 1,
                     FALSE, NoEntry)
    /\ UNCHANGED <<subscriptionTable, cacheVars, perfVars, replicaVars>>
    /\ UNCHANGED hookFrame

\* What the handler does to the caches of the user after the upsert
\* (lines 153-156, 305-308).
\* (a variant that skips clearUserDataCache, to show the properties depend on it)
KeepCachesAfterUpsert(perf, caches, userId) ==
    [perf |-> invalidateUserCaches(perf, userId), caches |-> caches]
InvalidateAfterUpsert(perf, caches, userId) ==
    [perf |-> invalidateUserCaches(perf, userId),
     caches |-> clearUserDataCache(caches, userId)]

\* After the upsert the handler invalidates the caches of the user and
\* returns (lines 150-157, 302-309); the value returned is history: in how
\* many of the four maps the user had an entry.
HookFinish(h) ==
    /\ hooks[h] # NoCall
    /\ hooks[h].pc = "upserted"
    /\ LET after == InvalidateAfterUpsert(
                        [proUserStatus |-> proUserStatus,
                         subscriptionCache |-> subscriptionCache],
                        Caches, hooks[h].userId)
       IN  /\ SetCaches(after.caches)
           /\ proUserStatus' = after.perf.proUserStatus
           /\ subscriptionCache' = after.perf.subscriptionCache
    /\ hooks' = [hooks EXCEPT ![h] = NoCall]
    /\ calls' = UpdateSeen(calls, hooks[h].userId, "running", "finished")
    /\ ret' = Return(hooks[h].fn, hooks[h].userId,
                     DataValue(EntriesOf(hooks[h].userId)), "upserted", 1, TRUE,
                     NoEntry)
    /\ UNCHANGED <<subscriptionTable, replicaVars>>
    /\ UNCHANGED <<now, selected, discount, reddit, client>>

----------------------------------------------------------------------------
(* lib/discount.ts: strings are sequences of one-character strings *)

LowerLetters ==
    {"a", "b", "c", "d", "e", "f", "g", "h", "i", "j", "k", "l", "m", "n", "o",
     "p", "q", "r", "s", "t", "u", "v", "w", "x", "y", "z"}

\* String.prototype.toLowerCase on one character (the capitals the inputs use)
LowerChar(c) ==
    CASE c = "A" -> "a"
      [] c = "C" -> "c"
      [] c = "D" -> "d"
      [] c = "E" -> "e"
      [] c = "I" -> "i"
      [] c = "N" -> "n"
      [] c = "U" -> "u"
      [] c = "X" -> "x"
      [] OTHER -> c

toLowerCase(s) == [i \in 1..Len(s) |-> LowerChar(s[i])]

\* s.split(sep) for a one-character separator: the sequence of the parts
RECURSIVE SplitFrom(_, _, _, _)
SplitFrom(s, sep, i, cur) ==
    IF i > Len(s) THEN <<cur>>
    ELSE IF s[i] = sep THEN <<cur>> \o SplitFrom(s, sep, i + 1, <<>>)
    ELSE SplitFrom(s, sep, i + 1, Append(cur, s[i]))

split(s, sep) == SplitFrom(s, sep, 1, <<>>)

\* s.endsWith(t)
endsWith(s, t) ==
    /\ Len(t) <= Len(s)
    /\ SubSeq(s, Len(s) - Len(t) + 1, Len(s)) = t

\* s.trim(): leading and trailing blanks removed
RECURSIVE trimStart(_)
trimStart(s) == IF s # <<>> /\ Head(s) = " " THEN trimStart(Tail(s)) ELSE s

RECURSIVE trimEnd(_)
trimEnd(s) ==
    IF s # <<>> /\ s[Len(s)] = " " THEN trimEnd(SubSeq(s, 1, Len(s) - 1)) ELSE s

trim(s) == trimEnd(trimStart(s))

DotEdu == <<".", "e", "d", "u">>

\* /\.edu\.[a-z]{2,3}$/.test(domain)
EduCountryRegex(domain) ==
    \E k \in {2, 3} :
        /\ Len(domain) >= 5 + k
        /\ SubSeq(domain, Len(domain) - k - 4, Len(domain) - k) = DotEdu \o <<".">>
        /\ \A j \in (Len(domain) - k + 1)..Len(domain) : domain[j] \in LowerLetters

\* (a variant that compares the whole domain, to show the properties depend on it)
ExactPatternMatches(domain, pattern) ==
    LET lowerPattern == toLowerCase(pattern)
    IN  IF lowerPattern = DotEdu
        THEN endsWith(domain, DotEdu) \/ EduCountryRegex(domain)
        ELSE domain = lowerPattern
\* The predicate of studentDomains.some(...) for one pattern (lines 24-34).
PatternMatches(domain, pattern) ==
    LET lowerPattern == toLowerCase(pattern)
    IN  IF lowerPattern = DotEdu
        THEN endsWith(domain, DotEdu) \/ EduCountryRegex(domain)
        ELSE endsWith(domain, lowerPattern)

\* isStudentEmail(email, studentDomains); studentDomains is a sequence
isStudentEmail(email, studentDomains) ==
    IF email = <<>> THEN FALSE
    ELSE IF Len(studentDomains) = 0 THEN FALSE
    ELSE LET emailParts == split(toLowerCase(email), "@")
         IN  IF Len(emailParts) # 2 THEN FALSE
             ELSE \E k \in 1..Len(studentDomains) :
                      PatternMatches(emailParts[2], studentDomains[k])

\* What get('student_domains') can produce: it throws, it yields a value that
\* is not a string (or nothing), or it yields a string.
ConfigThrows == [kind |-> "throws"]
ConfigNotString == [kind |-> "notString"]
ConfigString(s) == [kind |-> "string", value |-> s]

\* studentDomainsConfig.split(',').map(trim).filter(length > 0)
RECURSIVE TrimNonEmpty(_)
TrimNonEmpty(parts) ==
    IF parts = <<>> THEN <<>>
    ELSE LET d == trim(Head(parts))
         IN  (IF Len(d) > 0 THEN <<d>> ELSE <<>>) \o TrimNonEmpty(Tail(parts))

FallbackDomains ==
    << DotEdu,
       <<".", "a", "c", ".", "i", "n">>,
       <<".", "e", "d", "u", ".", "i", "n">> >>

\* The student domains getDiscountConfig ends up with (lines 53-67).
ResolveStudentDomains(config) ==
    CASE config.kind = "throws" -> FallbackDomains
      [] config.kind = "string" /\ config.value # <<>> ->
            TrimNonEmpty(split(config.value, ","))
      [] OTHER -> <<>>

defaultConfig == [enabled |-> FALSE, isStudentDiscount |-> FALSE]

\* An optional string: undefined, or a string (which may be empty).
Undefined == [defined |-> FALSE]
Str(s) == [defined |-> TRUE, value |-> s]
\* !x for an optional string
Falsy(x) == ~x.defined \/ x.value = <<>>

\* getDiscountConfig(userEmail) with the Edge Config outcome `config` and
\* process.env.STRIPE_STUDENT_DISCOUNT_ID = env.
\* (a variant that skips the student check, to show the properties depend on it)
NoStudentCheckGetDiscountConfig(userEmail, config, env) ==
    IF Falsy(userEmail) THEN defaultConfig
    ELSE IF Falsy(env) THEN defaultConfig
    ELSE [enabled |-> TRUE,
          message |-> "Student discount applied",
          finalPrice |-> 5,
          isStudentDiscount |-> TRUE,
          stripeDiscountId |-> env.value]
getDiscountConfig(userEmail, config, env) ==
    IF Falsy(userEmail) THEN defaultConfig
    ELSE IF ~isStudentEmail(userEmail.value, ResolveStudentDomains(config))
    THEN defaultConfig
    ELSE IF Falsy(env) THEN defaultConfig
    ELSE [enabled |-> TRUE,
          message |-> "Student discount applied",
          finalPrice |-> 5,
          isStudentDiscount |-> TRUE,
          stripeDiscountId |-> env.value]

(* The inputs the discount functions are applied to *)

Locals == {<<>>, <<"a">>, <<"A", "@", "b">>}
Separators == {<<>>, <<"@">>}
Hosts == {<<>>, <<"x">>, <<"X">>}
DomainTails ==
    { <<>>,
      <<".", "e", "d", "u">>,
      <<".", "E", "D", "U">>,
      <<".", "e", "d", "u", ".", "p", "k">>,
      <<".", "e", "d", "u", ".", "a">>,
      <<".", "e", "d", "u", ".", "i", "n", "9">>,
      <<".", "a", "c", ".", "i", "n">>,
      <<".", "A", "C", ".", "I", "N">>,
      <<".", "c", "o", "m">> }
Emails == {l \o s \o h \o t : l \in Locals, s \in Separators, h \in Hosts, t \in DomainTails}

Patterns ==
    { DotEdu,
      <<".", "E", "D", "U">>,
      <<".", "a", "c", ".", "i", "n">>,
      <<".", "A", "c", ".", "I", "n">>,
      <<"x", ".", "a", "c", ".", "i", "n">>,
      <<"a", "c", ".", "i", "n">>,
      <<".", "c", "o", "m">> }
DomainLists == {<<>>} \cup {<<p>> : p \in Patterns} \cup {<<p, q>> : p, q \in Patterns}

ConfigValues ==
    { ConfigThrows, ConfigNotString, ConfigString(<<>>),
      ConfigString(DotEdu),
      ConfigString(<<" ", ".", "c", "o", "m", " ", ",", ",", ".", "A", "C", ".", "I", "N", " ">>),
      ConfigString(<<" ", ",", " ">>) }
EnvValues == {Undefined, Str(<<>>), Str(<<"c", "p", "n">>)}

NoDiscountCall == [fn |-> "none"]

\* The functions are pure: one application per behaviour covers every input.
GetDiscountConfigCall ==
    \E e \in {Str(x) : x \in Emails} \cup {Undefined}, c \in ConfigValues,
       v \in EnvValues :
        /\ discount = NoDiscountCall
        /\ discount' = [fn |-> "getDiscountConfig", email |-> e, config |-> c,
                        env |-> v, result |-> getDiscountConfig(e, c, v)]
        /\ UNCHANGED <<now, subscriptionTable, cacheVars, perfVars, calls, hooks,
                       ret, replicaVars, selected, reddit, client>>

IsStudentEmailCall ==
    \E e \in Emails, ds \in DomainLists :
        /\ discount = NoDiscountCall
        /\ discount' = [fn |-> "isStudentEmail", email |-> e, domains |-> ds,
                        result |-> isStudentEmail(e, ds)]
        /\ UNCHANGED <<now, subscriptionTable, cacheVars, perfVars, calls, hooks,
                       ret, replicaVars, selected, reddit, client>>

----------------------------------------------------------------------------
(* lib/tools/reddit-search.ts: redditSearchTool *)

NoRedditCall == [pc |-> "idle"]

\* queries per call the model tries (the input schema allows 1 to 5)
MaxQueries == 3

\* the input the schema admits: the queries, and maxResults absent or a list
QueryLists == UNION {[1..n -> {"q1", "q2"}] : n \in 1..MaxQueries}
MaxResultsInputs ==
    {[given |-> FALSE]} \cup
    {[given |-> TRUE, list |-> l] : l \in {<<5>>, <<0, 7>>}}

\* maxResults?.[index] || maxResults?.[0] || 20 (line 314), index from 1
CurrentMaxResults(maxResults, index) ==
    IF maxResults.given /\ index <= Len(maxResults.list)
       /\ maxResults.list[index] # 0
    THEN maxResults.list[index]
    ELSE IF maxResults.given /\ Len(maxResults.list) >= 1
            /\ maxResults.list[1] # 0
    THEN maxResults.list[1]
    ELSE 20

\* a result of tvly.search: its url (the subreddit named after /r/, "" when
\* there is none, and whether /comments/ follows it), title and content
\* ("" when missing)
TavilyResults ==
    {[url |-> [text |-> "reddit.com/r/aww/comments/1", r |-> "aww", comments |-> TRUE],
      title |-> "", content |-> "c"],
     [url |-> [text |-> "reddit.com/user/x", r |-> "", comments |-> FALSE],
      title |-> "t", content |-> ""]}

\* the answers of tvly.search: data.results
TavilyAnswers ==
    {<<>>} \cup {<<a>> : a \in TavilyResults}
           \cup {<<a, b>> : <<a, b>> \in {q \in TavilyResults \X TavilyResults :
                                               q[1].title = "" /\ q[2].title # ""}}

\* data.results.map(...) (lines 333-347)
ProcessResult(result) ==
    [url |-> result.url.text,
     title |-> IF result.title # "" THEN result.title ELSE result.url.text,
     content |-> result.content,
     subreddit |-> IF result.url.r # "" THEN result.url.r ELSE "unknown",
     isRedditPost |-> result.url.r # "" /\ result.url.comments]

ProcessResults(results) == [i \in 1..Len(results) |-> ProcessResult(results[i])]

\* dataStream?.write({type: 'data-query_completion', data}) (lines 318-328,
\* 352-362, 373-383): the notifications written so far, none without a stream
Notify(writes, stream, query, index, total, status, resultsCount) ==
    IF stream
    THEN Append(writes, [query |-> query, index |-> index, total |-> total,
                         status |-> status, resultsCount |-> resultsCount])
    ELSE writes

\* the promise of a query: pending, fulfilled with its entry or rejected
Pending == [state |-> "pending"]
Fulfilled(entry) == [state |-> "fulfilled", value |-> entry]
Rejected == [state |-> "rejected"]

\* the catch block of a query (lines 369-389): what its promise becomes
\* (a variant that rethrows, to show the properties depend on it)
RethrowOnSearchError(query) == Rejected
OnSearchError(query) == Fulfilled([query |-> query, results |-> <<>>])

\* await Promise.all(searchPromises) once every promise has settled
\* (line 392): the list of values in input order, or a rejection
PromiseAll(promises) ==
    IF \E i \in DOMAIN promises : promises[i].state = "rejected"
    THEN [pc |-> "failed"]
    ELSE [pc |-> "returned",
          searches |-> [i \in DOMAIN promises |-> promises[i].value]]

RECURSIVE StartedWrites(_, _, _, _)
\* the 'started' notifications of the queries i..Len(queries), in order
StartedWrites(writes, stream, queries, i) ==
    IF i > Len(queries) THEN writes
    ELSE StartedWrites(Notify(writes, stream, queries[i], i - 1, Len(queries),
                              "started", 0),
                       stream, queries, i + 1)

redditFrame == <<now, subscriptionTable, cacheVars, perfVars, calls, hooks, ret,
                 replicaVars, selected, discount, client>>

\* execute({queries, maxResults}) up to the awaits (lines 297-330): map runs
\* every callback as far as its tvly.search call; outcome is history, what
\* Tavily did for each query
RedditExecute(queries, maxResults, stream) ==
    /\ reddit = NoRedditCall
    /\ reddit' = [pc |-> "running", queries |-> queries, stream |-> stream,
                  asked |-> [i \in 1..Len(queries) |->
                                CurrentMaxResults(maxResults, i)],
                  promises |-> [i \in 1..Len(queries) |-> Pending],
                  outcome |-> [i \in 1..Len(queries) |-> [kind |-> "none"]],
                  writes |-> StartedWrites(<<>>, stream, queries, 1)]
    /\ UNCHANGED redditFrame

\* tvly.search of query i answers with data (lines 330-367)
TavilyAnswer(i, results) ==
    /\ reddit.pc = "running"
    /\ i \in DOMAIN reddit.promises
    /\ reddit.promises[i] = Pending
    /\ LET processed == ProcessResults(results)
       IN  reddit' = [reddit EXCEPT
              !.promises[i] = Fulfilled([query |-> reddit.queries[i],
                                         results |-> processed]),
              !.outcome[i] = [kind |-> "answered", results |-> results],
              !.writes = Notify(reddit.writes, reddit.stream, reddit.queries[i],
                                i - 1, Len(reddit.queries), "completed",
                                Len(processed))]
    /\ UNCHANGED redditFrame

\* tvly.search of query i throws (lines 369-389)
TavilyThrow(i) ==
    /\ reddit.pc = "running"
    /\ i \in DOMAIN reddit.promises
    /\ reddit.promises[i] = Pending
    /\ reddit' = [reddit EXCEPT
          !.promises[i] = OnSearchError(reddit.queries[i]),
          !.outcome[i] = [kind |-> "threw"],
          !.writes = Notify(reddit.writes, reddit.stream, reddit.queries[i],
                            i - 1, Len(reddit.queries), "error", 0)]
    /\ UNCHANGED redditFrame

\* Promise.all settles and execute returns {searches} (lines 392-396)
RedditReturn ==
    /\ reddit.pc = "running"
    /\ \A i \in DOMAIN reddit.promises : reddit.promises[i] # Pending
    /\ LET all == PromiseAll(reddit.promises)
       IN  reddit' = [pc |-> all.pc, queries |-> reddit.queries,
                      outcome |-> reddit.outcome, writes |-> reddit.writes,
                      searches |-> IF all.pc = "returned" THEN all.searches
                                   ELSE <<>>]
    /\ UNCHANGED redditFrame

----------------------------------------------------------------------------
(* hooks/use-cached-user-data.ts: useCachedUserData *)

NoClient == [mounted |-> FALSE]

\* the users getCurrentUser can return, besides null
ClientUsers == {"U1", "U2"}

\* !!x for a user, null or undefined
Truthy(x) == x \notin {"null", "undefined"}

\* what one render of the hook saw: freshUser, isFreshLoading, cachedUser
View(c) == [fresh |-> c.fresh, loading |-> c.loading, cached |-> c.cached]

NoView == [fresh |-> "none"]

\* the first effect (lines 17-21), run with the values of its render:
\* the cachedUser it leaves
UpdateCacheEffect(view, cached) ==
    IF Truthy(view.fresh) /\ ~view.loading THEN view.fresh ELSE cached

\* the second effect (lines 24-28)
\* (a variant that never clears, to show the properties depend on it)
KeepCacheEffect(view, cached) == cached
ClearCacheEffect(view, cached) ==
    IF ~Truthy(view.fresh) /\ ~view.loading /\ Truthy(view.cached)
    THEN "null" ELSE cached

\* const user = cachedUser || freshUser (line 31)
HookUser(view) == IF Truthy(view.cached) THEN view.cached ELSE view.fresh

\* const isLoading = !cachedUser && isFreshLoading (line 34)
HookIsLoading(view) == ~Truthy(view.cached) /\ view.loading

clientFrame == <<now, subscriptionTable, cacheVars, perfVars, calls, hooks, ret,
                 replicaVars, selected, discount, reddit>>

\* The component mounts: the query starts loading without data and
\* useLocalStorage yields what an earlier visit left under 'rovo-user-data'.
Mount(stored) ==
    /\ client = NoClient
    /\ client' = [mounted |-> TRUE, fresh |-> "undefined", loading |-> TRUE,
                  cached |-> stored, view |-> NoView,
                  deps1 |-> <<>>, deps2 |-> <<>>,
                  pending1 |-> FALSE, pending2 |-> FALSE, lastSet |-> "none"]
    /\ UNCHANGED clientFrame

\* The first fetch of useQuery settles: with a user, with null, or, when it
\* fails, without data.
QuerySettle(data) ==
    /\ client.mounted
    /\ client.loading
    /\ client' = [client EXCEPT !.fresh = data, !.loading = FALSE]
    /\ UNCHANGED clientFrame

\* A refetch (staleTime 5 s, refetchOnWindowFocus) brings other data.
QueryRefetch(data) ==
    /\ client.mounted
    /\ ~client.loading
    /\ data # client.fresh
    /\ client' = [client EXCEPT !.fresh = data]
    /\ UNCHANGED clientFrame

\* React renders the hook (lines 9-34) once the effects of the render
\* before have run: an effect is scheduled when its dependencies changed.
Render ==
    /\ client.mounted
    /\ ~client.pending1 /\ ~client.pending2
    /\ client.view # View(client)
    /\ LET d1 == <<client.fresh, client.loading>>
           d2 == <<client.fresh, client.loading, client.cached>>
       IN  client' = [client EXCEPT
              !.view = View(client),
              !.deps1 = d1, !.deps2 = d2,
              !.pending1 = (client.deps1 # d1),
              !.pending2 = (client.deps2 # d2)]
    /\ UNCHANGED clientFrame

\* The effects scheduled by the last render run, in order, with the values
\* that render saw; setCachedUser stores what the last of them set.
\* lastSet is history: the value of the last setCachedUser call.
RunEffects ==
    /\ client.mounted
    /\ client.pending1 \/ client.pending2
    /\ LET after1 == IF client.pending1
                     THEN UpdateCacheEffect(client.view, client.cached)
                     ELSE client.cached
           after2 == IF client.pending2
                     THEN ClearCacheEffect(client.view, after1)
                     ELSE after1
       IN  client' = [client EXCEPT
              !.cached = after2,
              !.pending1 = FALSE, !.pending2 = FALSE,
              !.lastSet = IF after2 # client.cached THEN after2 ELSE client.lastSet]
    /\ UNCHANGED clientFrame

----------------------------------------------------------------------------
(* Initial state and specifications *)

Init ==
    /\ now = 0
    /\ subscriptionTable = EmptyMap
    /\ userDataCache = EmptyMap
    /\ lightweightAuthCache = EmptyMap
    /\ customInstructionsCache = EmptyMap
    /\ userPreferencesCache = EmptyMap
    /\ proUserStatus = EmptyMap
    /\ subscriptionCache = EmptyMap
    /\ calls = [c \in CallIds |-> NoCall]
    /\ hooks = [h \in HookIds |-> NoCall]
    /\ ret = NoCall
    /\ currentIndex = -1
    /\ currentWeight = 0
    /\ selected = <<>>
    /\ discount = NoDiscountCall
    /\ reddit = NoRedditCall
    /\ client = NoClient

\* The replica selector alone, called by its two callers.
NextReplica == GetReadReplica \/ DbReplicaPick \/ SelectReplicaEmpty
SpecReplica == Init /\ [][NextReplica]_vars

\* Slots carry no identity: a request takes the lowest free one.
FirstFree(c) == calls[c] = NoCall /\ \A d \in CallIds : d < c => calls[d] # NoCall

\* The two cached getters in the slots C, for the users S and the options O
CachedGetters(C, S, O) ==
    \/ \E c \in C, kind \in {"instructions", "preferences"}, u \in S, opt \in O :
            FirstFree(c) /\ GetCachedByUserIdStart(c, kind, u, opt)
    \/ \E c \in C :
            \/ GetCachedByUserIdAnswer(c)
            \/ GetCachedByUserIdFail(c)
            \/ GetCachedByUserIdResume(c)

\* The requests of lib/user-data-server.ts in the slots C, for the session
\* users S
Requests(C, S) ==
    \/ \E c \in C, u \in S :
            /\ FirstFree(c)
            /\ \/ GetComprehensiveUserDataStart(c, u)
               \/ GetLightweightUserAuthStart(c, u)
    \/ \E c \in C :
            \/ DbAnswer(c)
            \/ DbFail(c)
            \/ GetComprehensiveUserDataResume(c)
            \/ GetLightweightUserAuthResume(c)

\* The helpers of lib/subscription.ts for the session users S
ProHelpers(S) ==
    \E session \in S :
        \/ \E ok \in BOOLEAN : IsUserSubscribed(session, ok)
        \/ \E ok \in BOOLEAN : GetProStatusWithSource(session, ok)
        \/ \E ok \in BOOLEAN : IsUserProCached(session, ok)
        \/ \E ok1, ok2 \in BOOLEAN : GetSubscriptionDetails(session, ok1, ok2)
        \/ \E ok0, ok1, ok2 \in BOOLEAN :
                GetUserSubscriptionStatus(session, ok0, ok1, ok2)

\* The webhook handlers in the slots H, for the events E and the Better
\* Auth subscription records B
Webhooks(H, E, B) ==
    \/ \E h \in H, ev \in E :
            \/ HandleStripeSubscriptionEventStart(h, ev)
            \/ \E sub \in B : OnSubscriptionUpdateStart(h, ev, sub)
    \/ \E h \in H :
            \/ HandleStripeSubscriptionEventLookup(h)
            \/ UpsertCommit(h)
            \/ HookQueryFail(h)
            \/ HookFinish(h)

\* the events and subscription records of the main specification
MainEvents ==
    StripeEvents({"customer.subscription.created"},
                 {"sub1"}, {"cus1"}, {"u1", ""}, {"active"}, {2 * TickMs})
MainAuthSubs == {[referenceId |-> "u1", plan |-> "pro"], [referenceId |-> "", plan |-> ""]}

\* Requests and webhooks interleaved at their awaits.
Next ==
    \/ Requests(CallIds, {"u1"})
    \/ CachedGetters({1}, {"u1"}, {NoTtl})
    \/ Webhooks(HookIds, MainEvents, MainAuthSubs)
    \/ ClearUserDataCache("u1")
    \/ ClearAllUserDataCache
Spec == Init /\ [][Next]_vars

\* The two cached getters, one at a time and for one user, called with
\* different lifetimes while the clock runs.
TtlOptions == {NoTtl, TtlMs(1 * TickMs), TtlMs(3 * TickMs)}
NextInstr ==
    \/ CachedGetters({1}, {"u1"}, TtlOptions)
    \/ ClearUserDataCache("u1")
    \/ Tick(MaxTicks)
SpecInstr == Init /\ [][NextInstr]_vars

\* All the requests, one at a time, for two users, with the clear
\* functions.
NextClear ==
    \/ Requests({1}, UserRows)
    \/ CachedGetters({1}, UserRows, {NoTtl})
    \/ \E u \in UserRows : ClearUserDataCache(u)
    \/ ClearAllUserDataCache
SpecClear == Init /\ [][NextClear]_vars

\* the initial state with another table and clock
InitWith(tables, t) ==
    /\ now = t
    /\ subscriptionTable \in tables
    /\ userDataCache = EmptyMap
    /\ lightweightAuthCache = EmptyMap
    /\ customInstructionsCache = EmptyMap
    /\ userPreferencesCache = EmptyMap
    /\ proUserStatus = EmptyMap
    /\ subscriptionCache = EmptyMap
    /\ calls = [c \in CallIds |-> NoCall]
    /\ hooks = [h \in HookIds |-> NoCall]
    /\ ret = NoCall
    /\ currentIndex = -1
    /\ currentWeight = 0
    /\ selected = <<>>
    /\ discount = NoDiscountCall
    /\ reddit = NoRedditCall
    /\ client = NoClient

\* the tables over the ids I whose rows take the users, statuses and
\* period ends given (written by webhook events carrying them)
Tables(I, users, statuses, periodEnds) ==
    UNION {{[j \in J |->
                [plan |-> "pro", referenceId |-> t[j].referenceId,
                 stripeCustomerId |-> "cus1", stripeSubscriptionId |-> j,
                 status |-> t[j].status, periodEnd |-> t[j].periodEnd]] :
             t \in [J -> [referenceId : users, status : statuses,
                          periodEnd : periodEnds]]} : J \in SUBSET I}

\* nothing has run yet
Fresh ==
    /\ ret = NoCall
    /\ \A c \in CallIds : calls[c] = NoCall
    /\ userDataCache = EmptyMap /\ lightweightAuthCache = EmptyMap

\* The Pro status of one user computed once, by each of the functions that
\* compute it, over every table of two rows.
NextPro ==
    \/ Fresh /\ \E u \in SessionUsers, ok \in BOOLEAN : GetProStatusWithSource(u, ok)
    \/ Fresh /\ \E u \in SessionUsers :
            \/ GetComprehensiveUserDataStart(1, u)
            \/ GetLightweightUserAuthStart(1, u)
    \/ DbAnswer(1)
    \/ DbFail(1)
    \/ GetComprehensiveUserDataResume(1)
    \/ GetLightweightUserAuthResume(1)
SpecPro ==
    /\ InitWith(Tables(SubIds, UserRows, Statuses, {0, 2 * TickMs}), 1)
    /\ [][NextPro]_vars

\* The helpers of lib/subscription.ts and the requests of
\* lib/user-data-server.ts, one at a time, with or without a session.
NextSub ==
    \/ ProHelpers({"u1", NoSession})
    \/ Requests({1}, {"u1", NoSession})
SpecSub ==
    /\ InitWith(Tables({"sub1"}, {"u1", "u2"}, {"active", "canceled", "past_due"},
                       {0, 2 * TickMs}), 1)
    /\ [][NextSub]_vars

\* One call of the Reddit search tool, its searches answering or throwing
\* in any order.
NextReddit ==
    \/ \E q \in QueryLists, m \in MaxResultsInputs, stream \in BOOLEAN :
            RedditExecute(q, m, stream)
    \/ \E i \in 1..MaxQueries, a \in TavilyAnswers : TavilyAnswer(i, a)
    \/ \E i \in 1..MaxQueries : TavilyThrow(i)
    \/ RedditReturn
SpecReddit == Init /\ [][NextReddit]_vars

\* The hook of one component, from its mount on.
NextClient ==
    \/ \E stored \in ClientUsers \cup {"null"} : Mount(stored)
    \/ \E data \in ClientUsers \cup {"null", "undefined"} : QuerySettle(data)
    \/ \E data \in ClientUsers \cup {"null"} : QueryRefetch(data)
    \/ Render
    \/ RunEffects
SpecClient == Init /\ [][NextClient]_vars

\* One request at a time against a table that no webhook changes, with the
\* clock running.
NextTtl ==
    \/ Requests({1}, UserRows \cup {NoSession})
    \/ \E u \in UserRows : ClearUserDataCache(u)
    \/ ClearAllUserDataCache
    \/ Tick(MaxTicks)
SpecTtl == Init /\ [][NextTtl]_vars

\* The discount functions alone, applied to the inputs above.
NextDiscount == GetDiscountConfigCall \/ IsStudentEmailCall
SpecDiscount == Init /\ [][NextDiscount]_vars

----------------------------------------------------------------------------
(* Properties of the Pro status *)

\* the table holds an active row that references user u
HasActiveRow(u) ==
    \E i \in DOMAIN subscriptionTable :
        /\ subscriptionTable[i].referenceId = u
        /\ subscriptionTable[i].status = "active"

\* one of the three functions has just computed a Pro status from a read
\* of the table that succeeded
ProComputed ==
    /\ ret.fn \in {"getProStatusWithSource", "getLightweightUserAuth",
                   "getComprehensiveUserData"}
    /\ ret.source = "db"
    /\ ret.value.kind = "data"

\* C1: getComprehensiveProStatus (reached through getProStatusWithSource),
\* getLightweightUserAuth on a cache miss and getComprehensiveUserData on a
\* cache miss compute isProUser = true exactly when a row referencing the
\* user has status 'active', whatever its period end; no other status
\* grants Pro.
C1_ProIffActiveRow ==
    ProComputed => (ret.value.data.isProUser <=> HasActiveRow(ret.user))

\* C1 witness: Pro was granted on an active row whose period has ended,
\* beside a row of the same user with another status.
C1_Witness ==
    /\ ProComputed
    /\ ret.value.data.isProUser
    /\ \A i \in DOMAIN subscriptionTable :
           (subscriptionTable[i].referenceId = ret.user
            /\ subscriptionTable[i].status = "active")
               => subscriptionTable[i].periodEnd < NowMs
    /\ \E i \in DOMAIN subscriptionTable :
           /\ subscriptionTable[i].referenceId = ret.user
           /\ subscriptionTable[i].status # "active"

----------------------------------------------------------------------------
(* Properties of the caches of lib/user-data-server.ts *)

CacheNames == {"userData", "lightweight", "instructions", "preferences"}

WebhookHandlers == {"handleStripeSubscriptionEvent", "onSubscriptionUpdate"}

\* C2: when handleStripeSubscriptionEvent or onSubscriptionUpdate returns
\* after a successful upsert for user u, it has called invalidateUserCaches
\* and clearUserDataCache for u, and none of the four in-memory maps holds
\* an entry for u.
C2_NoEntryAfterUpsert ==
    (ret.fn \in WebhookHandlers /\ ret.source = "upserted") =>
        \A k \in CacheNames : ret.user \notin DOMAIN Caches[k]

\* C2 witness: a handler returned after its upsert, and the user had an
\* entry in each of the four maps when it invalidated.
C2_Witness ==
    /\ ret.fn \in WebhookHandlers
    /\ ret.source = "upserted"
    /\ ret.value.data = 4

\* the age of the entry a request has just returned
ReturnedAge == NowMs - ret.entry.storedAt

\* C3: getComprehensiveUserData never returns a user-data entry 5 minutes
\* or more after it was stored, getLightweightUserAuth never returns a
\* lightweight-auth entry 2 minutes or more after it was stored (nor data
\* taken from a user-data entry that old), and a lookup that misses leaves
\* no entry behind: an expired one has been deleted.
C3_NeverReturnsExpired ==
    /\ (ret.fn = "getComprehensiveUserData" /\ ret.source = "cache")
           => ReturnedAge < CACHE_TTL_MS
    /\ (ret.fn = "getLightweightUserAuth" /\ ret.source = "cache")
           => ReturnedAge < LIGHTWEIGHT_CACHE_TTL_MS
    /\ (ret.fn = "getLightweightUserAuth" /\ ret.source = "fullCache")
           => ReturnedAge < CACHE_TTL_MS
    /\ (calls[1].fn = "getComprehensiveUserData" /\ calls[1].pc = "query")
           => calls[1].user \notin DOMAIN userDataCache
    /\ (calls[1].fn = "getLightweightUserAuth" /\ calls[1].pc = "query")
           => /\ calls[1].user \notin DOMAIN lightweightAuthCache
              /\ calls[1].user \notin DOMAIN userDataCache

\* C3 witness: an entry was returned in the last minute of its life.
C3_Witness ==
    /\ ret.fn = "getComprehensiveUserData"
    /\ ret.source = "cache"
    /\ ReturnedAge = CACHE_TTL_MS - TickMs

\* a lookup found the entry expired, 5 minutes after it was stored
C3_ExpiredFound ==
    /\ calls[1].fn = "getComprehensiveUserData"
    /\ calls[1].pc = "query"
    /\ calls[1].expired
    /\ now = 5

\* C4: a getComprehensiveUserData call that finds a live entry returns,
\* without a query, the data every miss has stored for the user since the
\* last clear or expiry.
C4_ReturnsStoredData ==
    (ret.fn = "getComprehensiveUserData" /\ ret.source = "cache") =>
        /\ ret.dbQueries = 0
        /\ \A d \in ret.entry.stores : ret.value.data = d

\* C6: clearUserDataCache(u) removes the entry of u from each of the four
\* maps and leaves the entries of every other user as they were;
\* clearAllUserDataCache empties the four maps.
C6_ClearFrame ==
    [][/\ ret'.fn = "clearUserDataCache" =>
              \A k \in CacheNames :
                  /\ DOMAIN Caches'[k] = DOMAIN Caches[k] \ {ret'.user}
                  /\ \A v \in DOMAIN Caches'[k] : Caches'[k][v] = Caches[k][v]
       /\ ret'.fn = "clearAllUserDataCache" =>
              \A k \in CacheNames : DOMAIN Caches'[k] = {}]_vars

\* C6 witness: clearUserDataCache removed the entries of one user from all
\* four maps while another user has an entry in each.
C6_Witness ==
    /\ ret.fn = "clearUserDataCache"
    /\ ret.value.data = 4
    /\ \E v \in UserRows \ {ret.user} : EntriesOf(v) = 4

SessionFunctions ==
    {"getLightweightUserAuth", "getComprehensiveUserData", "getSubscriptionDetails",
     "isUserSubscribed", "isUserProCached", "getUserSubscriptionStatus",
     "getProStatusWithSource"}

\* what the function returning value v is expected to return without a session
NoSessionValue(fn, v) ==
    CASE fn \in {"getLightweightUserAuth", "getComprehensiveUserData"} ->
            v = NullValue
      [] fn = "getSubscriptionDetails" ->
            v.kind = "data" /\ v.data.hasSubscription = FALSE
      [] fn \in {"isUserSubscribed", "isUserProCached"} -> v = BoolValue(FALSE)
      [] fn = "getUserSubscriptionStatus" -> v = StatusValue("none")
      [] fn = "getProStatusWithSource" ->
            v = DataValue([isProUser |-> FALSE, source |-> "none"])

\* C7: without a session user id the seven functions return their empty
\* result, issue no database query (no replica is selected either) and
\* neither read nor write any cache.
C7_NoSessionNoWork ==
    [][(ret'.fn \in SessionFunctions /\ ret'.user = NoSession) =>
          /\ NoSessionValue(ret'.fn, ret'.value)
          /\ ret'.dbQueries = 0
          /\ ~ret'.cacheTouched
          /\ UNCHANGED <<subscriptionTable, cacheVars, perfVars, replicaVars>>]_vars

\* C7 witness: a call without a session returned while the caches held
\* entries of an earlier call with one.
C7_Witness ==
    /\ ret.fn = "isUserProCached"
    /\ ret.user = NoSession
    /\ proUserStatus # EmptyMap
    /\ userDataCache # EmptyMap
    /\ subscriptionCache # EmptyMap

GetterReturnedCached ==
    /\ ret.fn \in {GetterOf("instructions"), GetterOf("preferences")}
    /\ ret.source = "cache"

\* a getter waits for the database in slot c although the map holds a
\* value for the user that is younger than the ttl kept with it
QueryDespiteFresh(c) ==
    /\ calls[c].fn \in {GetterOf("instructions"), GetterOf("preferences")}
    /\ calls[c].pc = "query"
    /\ calls[c].user \in DOMAIN CacheOf(calls[c].kind)
    /\ NowMs - CacheOf(calls[c].kind)[calls[c].user].timestamp
           < CacheOf(calls[c].kind)[calls[c].user].ttl

\* C8 as stated: a getter called with ttlMs t (5 minutes when omitted)
\* returns a cached value only if it was stored less than t before the call.
C8_FreshForCallTtl ==
    GetterReturnedCached => NowMs - ret.entry.timestamp < ret.ttlMs

\* C8 amended: a getter returns a cached value only if it was stored less
\* than the ttl kept with the entry ago, which is the ttlMs of the call that
\* stored it (5 minutes when that call omitted it); otherwise it falls back
\* to the database.
C8_FreshForStoredTtl ==
    /\ GetterReturnedCached =>
          /\ NowMs - ret.entry.timestamp < ret.entry.ttl
          /\ ret.entry.ttl \in {TtlOrDefault(o, CUSTOM_INSTRUCTIONS_CACHE_TTL_MS) :
                                   o \in TtlOptions}
    /\ \A c \in CallIds : ~QueryDespiteFresh(c)

\* C8 witness: a value stored with the default ttl was returned to a call
\* that asked for a shorter one, later than that.
C8_Witness ==
    /\ GetterReturnedCached
    /\ ret.entry.ttl = CUSTOM_INSTRUCTIONS_CACHE_TTL_MS
    /\ ret.ttlMs < NowMs - ret.entry.timestamp

----------------------------------------------------------------------------
(* Properties of the Reddit search tool *)

\* the entry the tool is expected to return for query i
ExpectedSearch(i) ==
    [query |-> reddit.queries[i],
     results |-> IF reddit.outcome[i].kind = "threw" THEN <<>>
                 ELSE ProcessResults(reddit.outcome[i].results)]

\* C11: execute never fails, and it returns one entry per input query, in
\* input order, each with its own query; a query whose search threw has the
\* entry {query, results: []} and the others have their own results.
C11_OneEntryPerQuery ==
    /\ reddit.pc # "failed"
    /\ reddit.pc = "returned" =>
          /\ Len(reddit.searches) = Len(reddit.queries)
          /\ \A i \in 1..Len(reddit.queries) :
                 reddit.searches[i] = ExpectedSearch(i)

\* C11 witness: of three queries, two of them the same, the second threw
\* after the third had answered with results.
C11_Witness ==
    /\ reddit.pc = "returned"
    /\ Len(reddit.queries) = 3
    /\ reddit.queries[1] = reddit.queries[3]
    /\ reddit.outcome[2].kind = "threw"
    /\ reddit.outcome[3].kind = "answered"
    /\ reddit.searches[3].results # <<>>
    /\ reddit.outcome[1].kind = "answered"
    /\ reddit.searches[1] # reddit.searches[3]

----------------------------------------------------------------------------
(* Properties of useCachedUserData *)

\* the query is settled, the hook has rendered its current state and the
\* effects of that render have run
SettledAndRendered ==
    /\ client.mounted
    /\ ~client.loading
    /\ client.view = View(client)
    /\ ~client.pending1 /\ ~client.pending2

\* C12: once the query is settled and the effects have run, the cache holds
\* the fresh user, or null when there is none, and the hook returns the
\* fresh user; isLoading is true only without a cached user while the query
\* loads.
C12_CacheFollowsFresh ==
    /\ SettledAndRendered =>
          /\ Truthy(client.fresh) => client.cached = client.fresh
          /\ ~Truthy(client.fresh) => client.cached = "null"
          /\ HookUser(client.view) = client.fresh
    /\ (client.mounted /\ client.view # NoView /\ HookIsLoading(client.view)) =>
          (client.view.loading /\ ~Truthy(client.view.cached))

\* C12 witness: the user who was cached has logged out, the cache has been
\* cleared and the hook returns no user.
C12_Witness ==
    /\ SettledAndRendered
    /\ client.fresh = "null"
    /\ client.lastSet = "null"
    /\ client.cached = "null"

----------------------------------------------------------------------------
(* Properties of the replica selector *)

\* how many of the selections k .. k+4 of the history picked replica i
PicksInWindow(k, i) == Cardinality({j \in k..(k + 4) : selected[j].index = i})

\* C5: with the two replicas and weights [4, 6], every 5 consecutive
\* selections, whichever of the two callers made them, contain replica 0
\* exactly twice and replica 1 exactly three times.
C5_WindowFollowsWeights ==
    \A k \in 1..(Len(selected) - 4) :
        PicksInWindow(k, 0) = 2 /\ PicksInWindow(k, 1) = 3

\* C5 witness: more than one window of 5 has been produced, by both callers.
C5_Witness ==
    /\ Len(selected) >= 7
    /\ \E i, j \in 1..Len(selected) :
           selected[i].by = "getReadReplica" /\ selected[j].by = "db"

\* C19: with the two replicas every selectReplica call returns after at
\* most 2 iterations of its loop, with currentIndex 0 or 1 and currentWeight
\* 2, 4 or 6; with an empty list it throws 'No replicas configured' and
\* leaves currentIndex and currentWeight as they were.
C19_BoundedSelection ==
    /\ [](/\ \A k \in 1..Len(selected) : selected[k].iters \in 1..2
          /\ selected # <<>> => (currentIndex \in {0, 1} /\ currentWeight \in {2, 4, 6}))
    /\ [][(ret'.fn = "selectReplica" /\ ret' # ret) =>
              /\ ret'.thrown = "No replicas configured"
              /\ UNCHANGED <<currentIndex, currentWeight>>
         ]_vars

\* C19 witness: the sixth call wrapped the threshold from 2 back to 6 and
\* took two iterations, and a call with an empty list then threw.
C19_Witness ==
    /\ Len(selected) = 6
    /\ selected[6].iters = 2
    /\ currentIndex = 1 /\ currentWeight = 6
    /\ ret.fn = "selectReplica"

----------------------------------------------------------------------------
(* Properties of the student discount *)

AtCount(s) == Cardinality({i \in 1..Len(s) : s[i] = "@"})

\* the text after the only "@" of s
AfterAt(s) ==
    LET i == CHOOSE j \in 1..Len(s) : s[j] = "@" IN SubSeq(s, i + 1, Len(s))

IsSuffix(t, s) == \E k \in 0..Len(s) : SubSeq(s, k + 1, Len(s)) = t

EmailGiven(e) == e.defined /\ e.value # <<>>

\* the conditions under which the claim expects the discount
C9_Qualifies ==
    /\ EmailGiven(discount.email)
    /\ isStudentEmail(discount.email.value, ResolveStudentDomains(discount.config))
    /\ EmailGiven(discount.env)

\* C9: getDiscountConfig enables the discount only for a given email that is
\* a student email under the resolved domains, with the Stripe discount id
\* set; then isStudentDiscount holds, the price is 5 and the id is the
\* environment's.  In every other case the result is exactly the default.
C9_DiscountOnlyForStudents ==
    discount.fn = "getDiscountConfig" =>
        LET r == discount.result
        IN  /\ r.enabled => C9_Qualifies
            /\ C9_Qualifies =>
                  /\ r.enabled
                  /\ r.isStudentDiscount
                  /\ r.finalPrice = 5
                  /\ r.stripeDiscountId = discount.env.value
            /\ ~C9_Qualifies => r = [enabled |-> FALSE, isStudentDiscount |-> FALSE]

\* C9 witness: a discount was granted, from domains parsed out of the
\* Edge Config string.
C9_Witness ==
    /\ discount.fn = "getDiscountConfig"
    /\ discount.config.kind = "string"
    /\ discount.result.enabled

\* a call of isStudentEmail with one pattern, which is not ".edu"
C10_OnePlainPattern ==
    /\ discount.fn = "isStudentEmail"
    /\ Len(discount.domains) = 1
    /\ toLowerCase(discount.domains[1]) # DotEdu

C13_NoEntryFromOlderRead ==
    \A u \in UserRows :
        /\ u \in DOMAIN userDataCache => ~userDataCache[u].readBefore
        /\ u \in DOMAIN lightweightAuthCache => ~lightweightAuthCache[u].readBefore

(***************************************************************************)
(* The webhook handlers alone                                              *)
(***************************************************************************)

\* Every subscription event type and Stripe status for one subscription of
\* the customer of user u1, and every type with two of the statuses for
\* another, with and without metadata.userId
HookEvents ==
    StripeEvents(SubscriptionEventTypes, {"sub1"}, {"cus1"}, {"u1", ""},
                 StripeStatuses, {2 * TickMs})
    \cup StripeEvents(SubscriptionEventTypes, {"sub2"}, {"cus1"}, {"u1", ""},
                      {"active", "unpaid"}, {2 * TickMs})
\* the subscription records Better Auth passes to onSubscriptionUpdate
HookAuthSubs ==
    {[referenceId |-> "u1", plan |-> "plus"], [referenceId |-> "u1", plan |-> ""],
     [referenceId |-> "", plan |-> ""]}

\* One handler at a time on the events of HookEvents, from the empty table.
NextHooks == Webhooks(HookIds, HookEvents, HookAuthSubs)
SpecHooks == Init /\ [][NextHooks]_vars

\* handler h has had its upsert committed and has not returned yet
Upserted(h, fn) == hooks[h].fn = fn /\ hooks[h].pc = "upserted"

\* C14: the row handleStripeSubscriptionEvent stores has status 'active' for
\* created and resumed, 'canceled' for deleted, 'paused' for paused, for
\* updated the Stripe status with 'unpaid' turned into 'past_due', and for
\* any other customer.subscription.* type the Stripe status as it is; its
\* plan is 'pro' and its referenceId the resolved user id.
C14_StoredRow ==
    \A h \in HookIds :
        Upserted(h, "handleStripeSubscriptionEvent") =>
            LET ev == hooks[h].event
                row == subscriptionTable[ev.id]
            IN  /\ row.status =
                      CASE ev.type \in {"customer.subscription.created",
                                        "customer.subscription.resumed"} -> "active"
                        [] ev.type = "customer.subscription.deleted" -> "canceled"
                        [] ev.type = "customer.subscription.paused" -> "paused"
                        [] ev.type = "customer.subscription.updated" ->
                              IF ev.status = "unpaid" THEN "past_due" ELSE ev.status
                        [] OTHER -> ev.status
                /\ row.plan = "pro"
                /\ hooks[h].userId # ""
                /\ row.referenceId = hooks[h].userId

\* C14 witness: an updated event with Stripe status 'unpaid' was stored as
\* 'past_due'.
C14_Witness ==
    /\ Upserted(1, "handleStripeSubscriptionEvent")
    /\ hooks[1].event.type = "customer.subscription.updated"
    /\ hooks[1].event.status = "unpaid"
    /\ subscriptionTable[hooks[1].event.id].status = "past_due"

\* an event of a type outside the table was stored with the Stripe status
\* 'unpaid' as it is
C14_OtherTypeStored ==
    /\ Upserted(1, "handleStripeSubscriptionEvent")
    /\ hooks[1].event.type = "customer.subscription.trial_will_end"
    /\ subscriptionTable[hooks[1].event.id].status = "unpaid"

\* C15: for every customer.subscription.* event and Stripe status, the
\* status onSubscriptionUpdate upserts is the status
\* handleStripeSubscriptionEvent upserts for the same event.
C15_SameStatusFromBothHandlers ==
    \A h \in HookIds :
        (hooks[h].fn = "onSubscriptionUpdate" /\ hooks[h].pc \in {"upsert", "upserted"}) =>
            hooks[h].data.status =
                SubscriptionData(hooks[h].event, hooks[h].userId).status

\* the two handlers have written different statuses for the same event, the
\* later write replacing the earlier one
C15_RowDependsOnLastWriter ==
    /\ Upserted(1, "onSubscriptionUpdate")
    /\ hooks[1].event.type = "customer.subscription.created"
    /\ hooks[1].event.status = "trialing"
    /\ subscriptionTable[hooks[1].event.id].status = "trialing"

(***************************************************************************)
(* handleStripeSubscriptionEvent: the user id and the failure paths        *)
(***************************************************************************)

HandleEvent == "handleStripeSubscriptionEvent"

\* C16: handleStripeSubscriptionEvent takes the user id from
\* metadata.userId when present and only otherwise from a row with the same
\* stripeCustomerId; when there is no user id, or when a query throws, it
\* returns normally with the subscription table, the four maps and the
\* performance caches as they were.
C16_ResolveOrLeave ==
    [][\A h \in HookIds :
          /\ (hooks[h] = NoCall /\ hooks'[h].fn = HandleEvent) =>
                IF hooks'[h].event.metadataUserId # ""
                THEN /\ hooks'[h].pc = "upsert"
                     /\ hooks'[h].userId = hooks'[h].event.metadataUserId
                ELSE hooks'[h].pc = "lookup"
          /\ (hooks[h].fn = HandleEvent /\ hooks[h].pc = "lookup"
                /\ hooks'[h] # hooks[h] /\ hooks'[h].fn = HandleEvent) =>
                /\ hooks'[h].pc = "upsert"
                /\ hooks'[h].userId # ""
                /\ \E i \in DOMAIN subscriptionTable :
                      /\ subscriptionTable[i].stripeCustomerId = hooks[h].event.customer
                      /\ subscriptionTable[i].referenceId = hooks'[h].userId
          /\ (hooks[h].fn = HandleEvent /\ hooks[h].pc \in {"lookup", "upsert"}
                /\ hooks'[h] = NoCall) =>
                /\ ret'.fn = HandleEvent
                /\ ret'.source \in {"noUser", "dbError"}
                /\ ret'.source = "noUser" =>
                      \A i \in DOMAIN subscriptionTable :
                          subscriptionTable[i].stripeCustomerId # hooks[h].event.customer
                /\ UNCHANGED <<subscriptionTable, cacheVars, perfVars>>
      ]_vars

\* C16 witness: the upsert for user u1 threw while the user had an entry in
\* userDataCache and a row in the table; the handler has returned.
C16_Witness ==
    /\ ret.fn = HandleEvent
    /\ ret.source = "dbError"
    /\ ret.user = "u1"
    /\ "u1" \in DOMAIN userDataCache
    /\ subscriptionTable # EmptyMap

\* no user id was found, neither in the metadata nor by the customer
C16_NoUserFound ==
    /\ ret.fn = HandleEvent
    /\ ret.source = "noUser"
    /\ "u1" \in DOMAIN userDataCache

\* the user id was taken from a row of the same customer, the event having
\* no metadata.userId
C16_ResolvedByCustomer ==
    /\ hooks[1].fn = HandleEvent
    /\ hooks[1].pc = "upsert"
    /\ hooks[1].event.metadataUserId = ""
    /\ hooks[1].userId = "u1"

(***************************************************************************)
(* The upsert keyed on the subscription id                                 *)
(***************************************************************************)

\* The tables a handler can leave when it processes the event of `hook` in
\* one piece on `table` and no query throws (lines 53-157, 225-309).
ProcessOnce(table, hook) ==
    LET ev == hook.event
    IN  IF hook.fn = "handleStripeSubscriptionEvent"
        THEN LET users == IF ev.metadataUserId # ""
                          THEN {ev.metadataUserId}
                          ELSE FindFirstByCustomer(table, ev.customer)
             IN  {IF u = "" THEN table ELSE Upsert(table, ev.id, SubscriptionData(ev, u)) :
                     u \in users}
        ELSE {Upsert(table, ev.id,
                     SubscriptionDataOnUpdate(
                         ev, [referenceId |-> hook.userId, plan |-> hook.data.plan]))}

OneRowPerStripeId ==
    \A i, j \in DOMAIN subscriptionTable :
        subscriptionTable[i].stripeSubscriptionId = subscriptionTable[j].stripeSubscriptionId
            => i = j

C18_FailedReadKeepsProStatus ==
    (/\ ret.fn \in {"isUserProCached", "getSubscriptionDetails"}
     /\ ret.user \in UserRows
     /\ HasActiveRow(ret.user)
     /\ HasProUserStatus(ret.user)) => proUserStatus[ret.user]

\* getSubscriptionDetails answered from its cache and replaced a cached
\* true by false after a failed read
C18_TrueReplacedByFalse ==
    /\ ret.fn = "getSubscriptionDetails"
    /\ ret.source = "cache"
    /\ ret.value.data.hasSubscription
    /\ HasActiveRow(ret.user)
    /\ HasProUserStatus(ret.user)
    /\ ~proUserStatus[ret.user]

====
